---- MODULE Spec2Model ----
(***************************************************************************)
(* Model of pkg/auth/providers/activedirectory/activedirectory_client.go:  *)
(* the Active Directory login, principal lookup and principal search       *)
(* client.  One top-level operation runs per behaviour; the directory      *)
(* (connection provider, bind and search answers) and the authorization    *)
(* collaborator are the environment and answer nondeterministically.       *)
(***************************************************************************)
EXTENDS Integers, Sequences, FiniteSets, TLC

\* Longest member-of list a matched user entry carries.
MaxMemberOf == 120

\* Step of the batching loop of getPrincipalsFromSearchResult.
BatchSize == 50

(***************************************************************************)
(* Package constants and the configuration attributes the client reads.    *)
(***************************************************************************)
Name == "activedirectory"
UserScope == "user"
GroupScope == "group"
MemberOfAttribute == "memberOf"
ObjectClassAttribute == "objectClass"

UserObjectClass == "person"
GroupObjectClass == "group"
UserNameAttribute == "name"
UserLoginAttribute == "sAMAccountName"
GroupNameAttribute == "name"
UserEnabledAttribute == "userAccountControl"
DefaultLoginDomain == <<"D">>
ServiceAccountUsername == <<"s", "v", "c">>

(***************************************************************************)
(* Errors.  An httperror carries its code as class; a fmt.Errorf error is  *)
(* of class "error"; an error handed up unchanged from the directory       *)
(* connection is of class "ldap".                                          *)
(***************************************************************************)
Nil == [class |-> "nil", msg |-> "nil"]

APIError(code, msg) == [class |-> code, msg |-> msg]

Errorf(msg) == [class |-> "error", msg |-> msg]

LdapError(res) == [class |-> "ldap", msg |-> res]

BindResults == {"ok", "invalidCredentials", "other"}

IsInvalidCredentials(res) == res = "invalidCredentials"

(***************************************************************************)
(* Strings the client takes apart are sequences of characters.             *)
(***************************************************************************)
Backslash == "\\"

Contains(s, c) == \E k \in 1..Len(s) : s[k] = c

FirstIndex(s, c) == CHOOSE k \in 1..Len(s) : s[k] = c /\ \A j \in 1..(k - 1) : s[j] /= c

\* a split at the last separator instead of the first
AfterFirst_Last(s, c) ==
    SubSeq(s, (CHOOSE k \in 1..Len(s) : s[k] = c /\ \A j \in (k + 1)..Len(s) : s[j] /= c) + 1, Len(s))

\* strings.SplitN(s, c, 2)[1] for an s that contains c
AfterFirst(s, c) == SubSeq(s, FirstIndex(s, c) + 1, Len(s))

GetUserExternalID(username, loginDomain) ==
    IF Contains(username, Backslash) THEN username
    ELSE IF loginDomain /= <<>> THEN loginDomain \o <<Backslash>> \o username
    ELSE username

SamName(username) ==
    IF Contains(username, Backslash) THEN AfterFirst(username, Backslash) ELSE username

EscapeChar(c) ==
    CASE c = Backslash -> <<Backslash, "5", "c">>
      [] c = "*" -> <<Backslash, "2", "a">>
      [] c = "(" -> <<Backslash, "2", "8">>
      [] c = ")" -> <<Backslash, "2", "9">>
      [] OTHER -> <<c>>

RECURSIVE EscapeFilter(_)
EscapeFilter(s) ==
    IF s = <<>> THEN <<>> ELSE EscapeChar(Head(s)) \o EscapeFilter(Tail(s))

LoginQuery(username) == [attr |-> UserLoginAttribute, value |-> EscapeFilter(SamName(username))]

Fold(s) ==
    CASE s = "Person" -> "person"
      [] s = "Group" -> "group"
      [] OTHER -> s

EqualFold(a, b) == Fold(a) = Fold(b)

(***************************************************************************)
(* Principals and directory entries.                                       *)
(***************************************************************************)
EmptyPrincipal ==
    [Name |-> "", DisplayName |-> "", LoginName |-> "", PrincipalType |-> "",
     Me |-> FALSE, MemberOf |-> FALSE, Provider |-> ""]

Attr(n, vs) == [Name |-> n, Values |-> vs]

GetAttributeValues(e, n) ==
    IF \E k \in 1..Len(e.Attributes) : e.Attributes[k].Name = n
    THEN e.Attributes[CHOOSE k \in 1..Len(e.Attributes) :
                          /\ e.Attributes[k].Name = n
                          /\ \A j \in 1..(k - 1) : e.Attributes[j].Name /= n].Values
    ELSE <<>>

IsType(attribs, varType) ==
    \E k \in 1..Len(attribs) :
        /\ attribs[k].Name = ObjectClassAttribute
        /\ \E j \in 1..Len(attribs[k].Values) : EqualFold(attribs[k].Values[j], varType)

DisabledValues == {"514"}

HasPermission(attribs) ==
    \/ ~IsType(attribs, UserObjectClass)
    \/ ~\E k \in 1..Len(attribs) :
           /\ attribs[k].Name = UserEnabledAttribute
           /\ Len(attribs[k].Values) > 0
           /\ attribs[k].Values[1] \in DisabledValues

\* the user branch's loop over the attributes, lines 342-353
RECURSIVE UserLoop(_, _, _, _)
UserLoop(attribs, k, externalID, acc) ==
    IF k > Len(attribs) \/ acc.panic THEN acc
    ELSE LET attr == attribs[k]
             accountName == IF attr.Name = UserNameAttribute
                            THEN IF Len(attr.Values) /= 0 THEN attr.Values[1] ELSE externalID
                            ELSE acc.accountName
         IN IF attr.Name = UserLoginAttribute
            THEN IF Len(attr.Values) = 0
                 THEN [acc EXCEPT !.accountName = accountName, !.panic = TRUE]
                 ELSE UserLoop(attribs, k + 1, externalID,
                               [accountName |-> accountName, login |-> attr.Values[1],
                                panic |-> FALSE])
            ELSE UserLoop(attribs, k + 1, externalID, [acc EXCEPT !.accountName = accountName])

\* the group branch's loop over the attributes, lines 356-371
RECURSIVE GroupLoop(_, _, _, _)
GroupLoop(attribs, k, externalID, acc) ==
    IF k > Len(attribs) THEN acc
    ELSE LET attr == attribs[k]
             accountName == IF attr.Name = GroupNameAttribute
                            THEN IF Len(attr.Values) /= 0 THEN attr.Values[1] ELSE externalID
                            ELSE acc.accountName
             login == IF attr.Name = UserLoginAttribute
                      THEN IF Len(attr.Values) > 0 /\ attr.Values[1] /= ""
                           THEN attr.Values[1] ELSE acc.login
                      ELSE accountName
         IN GroupLoop(attribs, k + 1, externalID,
                      [accountName |-> accountName, login |-> login, panic |-> FALSE])

LoopStart == [accountName |-> "", login |-> "", panic |-> FALSE]

MakePrincipal(externalIDType, externalID, acc, kind) ==
    [Name |-> externalIDType \o "://" \o externalID,
     DisplayName |-> acc.accountName,
     LoginName |-> acc.login,
     PrincipalType |-> kind,
     Me |-> FALSE, MemberOf |-> FALSE,
     Provider |-> Name]

\* status "ok": a principal; "nil": (nil, nil); "panic": an index out of range
attributesToPrincipal(attribs, dnStr, scope) ==
    IF IsType(attribs, UserObjectClass)
    THEN LET acc == UserLoop(attribs, 1, dnStr, LoopStart)
         IN IF acc.panic THEN [status |-> "panic", principal |-> EmptyPrincipal]
            ELSE [status |-> "ok", principal |-> MakePrincipal(scope, dnStr, acc, "user")]
    ELSE IF IsType(attribs, GroupObjectClass)
    THEN [status |-> "ok",
          principal |-> MakePrincipal(scope, dnStr, GroupLoop(attribs, 1, dnStr, LoopStart), "group")]
    ELSE [status |-> "nil", principal |-> EmptyPrincipal]

(***************************************************************************)
(* The directory: what a search may answer.                                *)
(***************************************************************************)
GroupDN(k) == "cn=g" \o ToString(k)

MemberOfList(n) == [k \in 1..n |-> GroupDN(k)]

UserDN == "cn=alice,dc=corp"

UserEntry(n) ==
    [DN |-> UserDN,
     Attributes |-> <<Attr(ObjectClassAttribute, <<"top", "person">>),
                      Attr(UserNameAttribute, <<"Alice">>),
                      Attr(UserLoginAttribute, <<"alice">>),
                      Attr(UserEnabledAttribute, <<"512">>)>>
                    \o (IF n = 0 THEN <<>> ELSE <<Attr(MemberOfAttribute, MemberOfList(n))>>)]

\* the object class differs from the configured one in case only
CapsEntry ==
    [DN |-> UserDN,
     Attributes |-> <<Attr(MemberOfAttribute, MemberOfList(1)),
                      Attr(UserLoginAttribute, <<"alice">>),
                      Attr(ObjectClassAttribute, <<"top", "Person">>)>>]

\* an entry that carries the login attribute and is not of the user class
ComputerEntry ==
    [DN |-> "cn=host,dc=corp",
     Attributes |-> <<Attr(ObjectClassAttribute, <<"top", "computer">>),
                      Attr(UserLoginAttribute, <<"alice">>),
                      Attr(MemberOfAttribute, MemberOfList(1))>>]

DisabledEntry ==
    [DN |-> UserDN,
     Attributes |-> <<Attr(ObjectClassAttribute, <<"top", "person">>),
                      Attr(UserLoginAttribute, <<"alice">>),
                      Attr(UserEnabledAttribute, <<"514">>)>>]

\* the login attribute is present with no values
NoLoginValueEntry ==
    [DN |-> UserDN,
     Attributes |-> <<Attr(ObjectClassAttribute, <<"top", "person">>),
                      Attr(UserNameAttribute, <<>>),
                      Attr(UserLoginAttribute, <<>>)>>]

SearchResult(err, entries) == [err |-> err, Entries |-> entries]

\* the member-of lengths tried: the short lists, those around every multiple of the
\* batch size, and the longest
MemberOfLengths ==
    {n \in 0..MaxMemberOf :
        n <= 3 \/ n % BatchSize \in {0, 1, BatchSize - 1} \/ n >= MaxMemberOf - 1}

UserSearchResults ==
    {SearchResult(LdapError("other"), <<>>),
     SearchResult(Nil, <<>>),
     SearchResult(Nil, <<UserEntry(0), UserEntry(1)>>)}
    \cup {SearchResult(Nil, <<UserEntry(n)>>) : n \in MemberOfLengths}
    \cup {SearchResult(Nil, <<e>>) : e \in {CapsEntry, ComputerEntry, DisabledEntry, NoLoginValueEntry}}

GroupEntry(dn) ==
    [DN |-> dn,
     Attributes |-> <<Attr(ObjectClassAttribute, <<"top", "group">>),
                      Attr(GroupNameAttribute, <<"admins">>),
                      Attr(UserLoginAttribute, <<"adm">>)>>]

UnrecognizedEntry(dn) ==
    [DN |-> dn, Attributes |-> <<Attr(ObjectClassAttribute, <<"top", "container">>)>>]

\* the directory may answer a batch in any order and with entries of other classes
Reordered(batch) ==
    [k \in 1..Len(batch) |->
        IF k = 1 THEN UnrecognizedEntry(batch[Len(batch)])
        ELSE GroupEntry(batch[Len(batch) + 1 - k])]

GroupSearchResults(batch) ==
    {SearchResult(LdapError("noSuchObject"), <<>>),
     SearchResult(LdapError("other"), <<>>),
     SearchResult(Nil, [k \in 1..Len(batch) |-> GroupEntry(batch[k])]),
     SearchResult(Nil, Reordered(batch))}

\* distinguished names handed to getPrincipal, and what ldapv2.ParseDN makes of them
LookupDNs ==
    {UserDN, "cn=admins,dc=corp", "not a dn", "objectClass=person+userAccountControl=514,dc=corp"}

ParseDN(dn) ==
    CASE dn = UserDN ->
           [err |-> Nil, attribs |-> <<Attr("cn", <<"alice">>), Attr("dc", <<"corp">>)>>]
      [] dn = "cn=admins,dc=corp" ->
           [err |-> Nil, attribs |-> <<Attr("cn", <<"admins">>), Attr("dc", <<"corp">>)>>]
      [] dn = "objectClass=person+userAccountControl=514,dc=corp" ->
           [err |-> Nil,
            attribs |-> <<Attr(ObjectClassAttribute, <<"person">>),
                          Attr(UserEnabledAttribute, <<"514">>), Attr("dc", <<"corp">>)>>]
      [] OTHER -> [err |-> [class |-> "dn", msg |-> "parse"], attribs |-> <<>>]

\* every order in which the attributes of the set S may be enumerated
Orderings(S) ==
    {o \in [1..Cardinality(S) -> S] : \A a \in S : \E k \in 1..Cardinality(S) : o[k] = a}

\* the name attribute of an entry: absent, without a value, with a value
NameAttributes == {{}, {Attr(UserNameAttribute, <<>>)}, {Attr(UserNameAttribute, <<"admins">>)}}

\* the login attribute of an entry: absent, without a value, with an empty
\* value, with a value
LoginAttributes ==
    {{}, {Attr(UserLoginAttribute, <<>>)}, {Attr(UserLoginAttribute, <<"">>)},
     {Attr(UserLoginAttribute, <<"adm">>)}}

\* the entries of one object class, their attributes in every order
EntriesOfClass(dn, class) ==
    {[DN |-> dn, Attributes |-> o] :
        o \in UNION {Orderings({Attr(ObjectClassAttribute, <<"top", class>>)} \cup n \cup l) :
                        n \in NameAttributes, l \in LoginAttributes}}

\* what the base-object search of getPrincipal may answer
LookupSearchResults(dn) ==
    {SearchResult(LdapError("noSuchObject"), <<>>),
     SearchResult(LdapError("other"), <<>>),
     SearchResult(Nil, <<>>),
     SearchResult(Nil, <<GroupEntry(dn), GroupEntry(dn)>>)}
    \cup {SearchResult(Nil, <<e>>) :
            e \in {UserEntry(0), UserEntry(1), DisabledEntry, NoLoginValueEntry,
                   GroupEntry(dn), UnrecognizedEntry(dn)}
                  \cup EntriesOfClass(dn, UserObjectClass)
                  \cup EntriesOfClass(dn, GroupObjectClass)}

NonLdapError == [class |-> "net", msg |-> "connection reset"]

\* what the paged search of searchLdap may answer
PagedEntry(sc, k) ==
    IF sc = UserScope
    THEN [DN |-> "cn=bob" \o ToString(k),
          Attributes |-> <<Attr(ObjectClassAttribute, <<"top", "person">>),
                           Attr(UserNameAttribute, <<"Bob">>),
                           Attr(UserLoginAttribute, <<"bob">>)>>]
    ELSE GroupEntry("cn=bobs" \o ToString(k))

PagedSearchResults(sc) ==
    {SearchResult(LdapError("noSuchObject"), <<>>),
     SearchResult(LdapError("other"), <<>>),
     SearchResult(NonLdapError, <<>>),
     SearchResult(Nil, <<>>),
     SearchResult(Nil, <<PagedEntry(sc, 1)>>),
     SearchResult(Nil, <<PagedEntry(sc, 2), PagedEntry(sc, 1)>>),
     SearchResult(Nil, <<PagedEntry(sc, 1), PagedEntry(sc, 1)>>),
     SearchResult(Nil, <<PagedEntry(sc, 1), UnrecognizedEntry("cn=printer")>>)}

(***************************************************************************)
(* State.                                                                  *)
(***************************************************************************)
VARIABLES
    op,               \* the top-level operation of this behaviour
    pc,               \* where the operation is
    cred,             \* loginUser: adCredential
    config,           \* the configuration fields that vary
    conns,            \* every connection NewLDAPConn handed out
    lConn,            \* the connection handle of the running function
    gConn,            \* the handle getPrincipalsFromSearchResult opened
    log,              \* the calls made on the collaborators, in order
    batches,          \* every getGroupPrincipals call: its argument, its calls, its return
    entry,            \* result.Entries[0] of loginUser's and of getPrincipal's search
    memberOf,
    userPrincipal,
    groupPrincipals,
    i,                \* the batching loop's index
    distinguishedName,\* getPrincipal's argument
    scope,            \* getPrincipal's argument; searchLdap's argument
    principalType,    \* searchPrincipals' argument
    principals,       \* searchPrincipals' result so far
    ret               \* what the operation returned

loginVars == <<cred, batches, entry, memberOf, userPrincipal, groupPrincipals, i, gConn>>

lookupVars == <<distinguishedName, principalType, principals>>

vars == <<op, pc, config, conns, lConn, log, scope, ret, loginVars, lookupVars>>

\* a call on a collaborator: n is the number of entries a search returned
\* arg is the identity of a bind, the filter's value of the login search and
\* the DNs of the entries a paged search returned
Ev(e, c, w, r) == [ev |-> e, conn |-> c, who |-> w, res |-> r, n |-> 0, arg |-> <<>>]

CloseEv(c) == Ev("close", c, "", "ok")

BindEv(c, w, r, id) == [ev |-> "bind", conn |-> c, who |-> w, res |-> r, n |-> 0, arg |-> id]

DNs(entries) == [k \in 1..Len(entries) |-> entries[k].DN]

SearchEv(e, c, w, result, filter) ==
    [ev |-> e, conn |-> c, who |-> w,
     res |-> IF result.err = Nil THEN "ok" ELSE result.err.msg,
     n |-> Len(result.Entries),
     arg |-> filter]

\* line 28
externalID == GetUserExternalID(cred.Username, DefaultLoginDomain)

\* lines 60-64: the value the login filter compares the login attribute with
query == LoginQuery(cred.Username).value

\* lines 41, 163, 271 and 457
serviceAccountUsername == GetUserExternalID(ServiceAccountUsername, DefaultLoginDomain)

NewConn == [open |-> TRUE, bound |-> "none"]

Close(cs, k) == [cs EXCEPT ![k].open = FALSE]

Bound(cs, k, who, res) == [cs EXCEPT ![k].bound = IF res = "ok" THEN who ELSE "failed"]

NoEntry == [DN |-> "", Attributes |-> <<>>]

\* loginUser returns user, groups, meta and err; getPrincipal returns principal (a
\* pointer, nil or not) and err; searchPrincipals returns list and err
Return(user, groups, meta, principal, isNil, list, err) ==
    [user |-> user, groups |-> groups, meta |-> meta,
     principal |-> principal, isNil |-> isNil, list |-> list, err |-> err]

NoReturn == Return(EmptyPrincipal, <<>>, "nil", EmptyPrincipal, TRUE, <<>>, Nil)

Usernames == {<<"a">>, <<"D", Backslash, "a">>, <<"D", Backslash, "a", Backslash, "b">>}

Passwords == {"", "secret"}

Credentials == [Username : Usernames, Password : Passwords]

Configs == [Enabled : BOOLEAN, ServiceAccountPassword : Passwords]

NoCredential == [Username |-> <<>>, Password |-> ""]

ScopeInputs == {UserScope, GroupScope, "User", "computer"}

PrincipalTypes == {"", "user", "group", "other"}

Init ==
    /\ op \in {"login", "getPrincipal", "searchPrincipals"}
    /\ pc = IF op = "login" THEN "loginUser" ELSE op
    /\ cred \in IF op = "login" THEN Credentials ELSE {NoCredential}
    /\ config \in Configs
    /\ distinguishedName \in IF op = "getPrincipal" THEN LookupDNs ELSE {""}
    /\ scope \in IF op = "getPrincipal" THEN ScopeInputs ELSE {""}
    /\ principalType \in IF op = "searchPrincipals" THEN PrincipalTypes ELSE {""}
    /\ principals = <<>>
    /\ conns = <<>>
    /\ lConn = 0
    /\ gConn = 0
    /\ log = <<>>
    /\ batches = <<>>
    /\ entry = NoEntry
    /\ memberOf = <<>>
    /\ userPrincipal = EmptyPrincipal
    /\ groupPrincipals = <<>>
    /\ i = 0
    /\ ret = NoReturn

(***************************************************************************)
(* loginUser                                                               *)
(***************************************************************************)
\* a loginUser that hands up what the callee returned beside its error
LoginError_Partial(err) ==
    Return(userPrincipal, groupPrincipals, "nil", EmptyPrincipal, TRUE, <<>>, err)

\* every error return of loginUser: return v3.Principal{}, nil, nil, err
LoginError(err) == Return(EmptyPrincipal, <<>>, "nil", EmptyPrincipal, TRUE, <<>>, err)

\* line 84
LoginSuccess(user, groups) == Return(user, groups, "{}", EmptyPrincipal, TRUE, <<>>, Nil)

\* a loginUser without the password check
PasswordMissing_Never(password) == FALSE

\* line 25
PasswordMissing(password) == password = ""

\* a bind failure never classified as invalid credentials
BindError_Unclassified(res) == APIError("ServerError", "server error while authenticating")

\* lines 43-48 and 53-58: a failed bind's error
BindError(res) ==
    IF IsInvalidCredentials(res)
    THEN APIError("Unauthorized", "authentication failed")
    ELSE APIError("ServerError", "server error while authenticating")

loginUnchanged == <<op, cred, config, batches, entry, memberOf, userPrincipal, groupPrincipals, i, gConn,
                    scope, lookupVars>>

\* lines 20-34: the password check and NewLDAPConn
loginUser ==
    /\ op = "login"
    /\ pc = "loginUser"
    /\ IF PasswordMissing(cred.Password)
       THEN /\ ret' = LoginError(APIError("MissingRequired", "password not provided"))
            /\ pc' = "done"
            /\ UNCHANGED <<conns, lConn, log>>
       ELSE \E ok \in BOOLEAN :
              IF ok
              THEN /\ conns' = Append(conns, NewConn)
                   /\ lConn' = Len(conns) + 1
                   /\ log' = Append(log, Ev("open", Len(conns) + 1, "", "ok"))
                   /\ pc' = "serviceBind"
                   /\ UNCHANGED ret
              ELSE /\ ret' = LoginError(LdapError("connect"))
                   /\ pc' = "done"
                   /\ log' = Append(log, Ev("open", 0, "", "connect"))
                   /\ UNCHANGED <<conns, lConn>>
    /\ UNCHANGED loginUnchanged

\* a login that makes the service-account bind whatever the configuration
PreBindRequired_Always(enabled) == TRUE

\* line 36: if !config.Enabled
PreBindRequired(enabled) == ~enabled

\* lines 36-49: the service-account bind made when the configuration is not enabled
serviceBind ==
    /\ op = "login"
    /\ pc = "serviceBind"
    /\ IF ~PreBindRequired(config.Enabled)
       THEN /\ pc' = "userBind"
            /\ UNCHANGED <<conns, log, ret>>
       ELSE IF config.ServiceAccountPassword = ""
       THEN /\ ret' = LoginError(APIError("MissingRequired", "service account password not provided"))
            /\ pc' = "done"
            /\ conns' = Close(conns, lConn)
            /\ log' = Append(log, CloseEv(lConn))
       ELSE \E res \in BindResults :
              /\ IF res = "ok"
                 THEN /\ conns' = Bound(conns, lConn, "sa", res)
                      /\ log' = Append(log, BindEv(lConn, "sa", res, serviceAccountUsername))
                      /\ pc' = "userBind"
                      /\ UNCHANGED ret
                 ELSE /\ conns' = Close(Bound(conns, lConn, "sa", res), lConn)
                      /\ log' = log \o <<BindEv(lConn, "sa", res, serviceAccountUsername), CloseEv(lConn)>>
                      /\ ret' = LoginError(BindError(res))
                      /\ pc' = "done"
    /\ UNCHANGED lConn
    /\ UNCHANGED loginUnchanged

\* lines 51-58: the bind with the user's externalID and password
userBind ==
    /\ op = "login"
    /\ pc = "userBind"
    /\ \E res \in BindResults :
         IF res = "ok"
         THEN /\ conns' = Bound(conns, lConn, "user", res)
              /\ log' = Append(log, BindEv(lConn, "user", res, externalID))
              /\ pc' = "userRecord"
              /\ UNCHANGED ret
         ELSE /\ conns' = Close(Bound(conns, lConn, "user", res), lConn)
              /\ log' = log \o <<BindEv(lConn, "user", res, externalID), CloseEv(lConn)>>
              /\ ret' = LoginError(BindError(res))
              /\ pc' = "done"
    /\ UNCHANGED lConn
    /\ UNCHANGED loginUnchanged

\* a userRecord that takes the first of several entries
EntriesError_FirstOfMany(n) ==
    IF n < 1 THEN Errorf("Cannot locate user information") ELSE Nil

\* lines 93-97: how many entries the user search may return
EntriesError(n) ==
    IF n < 1 THEN Errorf("Cannot locate user information")
    ELSE IF n > 1 THEN Errorf("ldap user search found more than one result")
    ELSE Nil

\* lines 60-74 and 87-98: the user search, and loginUser's return of its error
userRecord ==
    /\ op = "login"
    /\ pc = "userRecord"
    /\ \E result \in UserSearchResults :
         LET err == IF result.err /= Nil THEN result.err ELSE EntriesError(Len(result.Entries))
         IN IF err /= Nil
            THEN /\ conns' = Close(conns, lConn)
                 /\ log' = log \o <<SearchEv("search", lConn, "user", result, query), CloseEv(lConn)>>
                 /\ ret' = LoginError(err)
                 /\ pc' = "done"
                 /\ UNCHANGED entry
            ELSE /\ log' = Append(log, SearchEv("search", lConn, "user", result, query))
                 /\ entry' = result.Entries[1]
                 /\ pc' = "getPrincipalsFromSearchResult"
                 /\ UNCHANGED <<conns, ret>>
    /\ UNCHANGED <<op, cred, config, batches, memberOf, userPrincipal, groupPrincipals, i, lConn, gConn,
                   scope, lookupVars>>

\* lines 116-122
IsUserClass(e) ==
    \E k \in 1..Len(GetAttributeValues(e, ObjectClassAttribute)) :
        EqualFold(GetAttributeValues(e, ObjectClassAttribute)[k], UserObjectClass)

\* lines 102-139: the checks on the matched entry, its mapping, and the second connection
getPrincipalsFromSearchResult ==
    /\ op = "login"
    /\ pc = "getPrincipalsFromSearchResult"
    /\ LET user == attributesToPrincipal(entry.Attributes, entry.DN, UserScope)
           members == GetAttributeValues(entry, MemberOfAttribute)
       IN IF ~HasPermission(entry.Attributes)
          THEN /\ ret' = LoginError(Errorf("Permission denied"))
               /\ pc' = "done"
               /\ conns' = Close(conns, lConn)
               /\ log' = Append(log, CloseEv(lConn))
               /\ UNCHANGED <<memberOf, userPrincipal, gConn>>
          ELSE IF ~IsUserClass(entry)
          THEN /\ pc' = "checkAccess"
               /\ memberOf' = members
               /\ UNCHANGED <<ret, conns, log, userPrincipal, gConn>>
          ELSE IF user.status /= "ok"
          THEN /\ pc' = "panic"
               /\ memberOf' = members
               /\ conns' = Close(conns, lConn)
               /\ log' = Append(log, CloseEv(lConn))
               /\ UNCHANGED <<ret, userPrincipal, gConn>>
          ELSE /\ userPrincipal' = [user.principal EXCEPT !.Me = TRUE]
               /\ memberOf' = members
               /\ IF Len(members) /= 0
                  THEN \E ok \in BOOLEAN :
                         IF ok
                         THEN /\ conns' = Append(conns, NewConn)
                              /\ gConn' = Len(conns) + 1
                              /\ log' = Append(log, Ev("open", Len(conns) + 1, "", "ok"))
                              /\ pc' = "getGroupPrincipals"
                              /\ UNCHANGED ret
                         ELSE /\ ret' = LoginError(LdapError("connect"))
                              /\ pc' = "done"
                              /\ conns' = Close(conns, lConn)
                              /\ log' = log \o <<Ev("open", 0, "", "connect"), CloseEv(lConn)>>
                              /\ UNCHANGED gConn
                  ELSE /\ pc' = "checkAccess"
                       /\ UNCHANGED <<ret, conns, log, gConn>>
    /\ i' = 0
    /\ UNCHANGED <<op, cred, config, batches, entry, groupPrincipals, lConn, scope, lookupVars>>

(***************************************************************************)
(* getGroupPrincipals                                                      *)
(***************************************************************************)
Min(a, b) == IF a < b THEN a ELSE b

\* a batch that stops one short
Batch_OneShort(list, k) == SubSeq(list, k + 1, Min(k + BatchSize - 1, Len(list)))

\* line 141: memberOf[k:min(k+50, len(memberOf))], k counted from 0
Batch(list, k) == SubSeq(list, k + 1, Min(k + BatchSize, Len(list)))

\* line 167
FallbackGate(res, enabled) == IsInvalidCredentials(res) /\ enabled

\* a synthesized group that is not marked as a membership
DegradedGroup_NotMember(dn) ==
    [Name |-> GroupScope \o "://" \o dn,
     DisplayName |-> dn,
     LoginName |-> dn,
     PrincipalType |-> GroupScope,
     Me |-> FALSE, MemberOf |-> FALSE,
     Provider |-> ""]

\* lines 170-176
DegradedGroup(dn) ==
    [Name |-> GroupScope \o "://" \o dn,
     DisplayName |-> dn,
     LoginName |-> dn,
     PrincipalType |-> GroupScope,
     Me |-> FALSE, MemberOf |-> TRUE,
     Provider |-> ""]

\* lines 202-209: a failed search's error
SearchError(err) ==
    IF err.class = "ldap" /\ err.msg = "noSuchObject"
    THEN APIError("NotFound", "not found")
    ELSE APIError("ServerError", "Internal server error")

\* lines 211-226: the entries mapped, those without a principal skipped
MapGroups(entries) ==
    LET mapped == [k \in 1..Len(entries) |->
                      attributesToPrincipal(entries[k].Attributes, entries[k].DN, GroupScope)]
        IsOk(m) == m.status = "ok"
        kept == SelectSeq(mapped, IsOk)
    IN [panic |-> \E k \in 1..Len(mapped) : mapped[k].status = "panic",
        principals |-> [k \in 1..Len(kept) |-> [kept[k].principal EXCEPT !.MemberOf = TRUE]]]

\* a getGroupPrincipals that goes on to the search whatever the bind answered
GetGroupPrincipals_IgnoresBind(groupDN, bindRes, result, enabled) ==
    IF result.err /= Nil
    THEN [principals |-> <<>>, err |-> SearchError(result.err), searched |-> TRUE, panic |-> FALSE]
    ELSE [principals |-> MapGroups(result.Entries).principals, err |-> Nil,
          searched |-> TRUE, panic |-> MapGroups(result.Entries).panic]

\* lines 159-229, given the directory's answers to the bind and to the search
GetGroupPrincipals(groupDN, bindRes, result, enabled) ==
    IF bindRes /= "ok"
    THEN IF FallbackGate(bindRes, enabled)
         THEN [principals |-> [k \in 1..Len(groupDN) |-> DegradedGroup(groupDN[k])],
               err |-> Nil, searched |-> FALSE, panic |-> FALSE]
         ELSE [principals |-> <<>>, err |-> Errorf("Error in ldap bind"),
               searched |-> FALSE, panic |-> FALSE]
    ELSE IF result.err /= Nil
    THEN [principals |-> <<>>, err |-> SearchError(result.err), searched |-> TRUE, panic |-> FALSE]
    ELSE [principals |-> MapGroups(result.Entries).principals, err |-> Nil,
          searched |-> TRUE, panic |-> MapGroups(result.Entries).panic]

\* lines 140-149: one turn of the batching loop, and loginUser's return of its error
getGroupPrincipals ==
    /\ op = "login"
    /\ pc = "getGroupPrincipals"
    /\ LET batch == Batch(memberOf, i)
       IN \E bindRes \in BindResults :
             \E result \in (IF bindRes = "ok" THEN GroupSearchResults(batch)
                            ELSE {SearchResult(Nil, <<>>)}) :
               LET r == GetGroupPrincipals(batch, bindRes, result, config.Enabled)
                   calls == <<BindEv(gConn, "sa", bindRes, serviceAccountUsername)>>
                            \o (IF r.searched
                                THEN <<SearchEv("search", gConn, "group", result, <<>>)>>
                                ELSE <<>>)
                   bound == Bound(conns, gConn, "sa", bindRes)
               IN /\ batches' = Append(batches, [groupDN |-> batch, bind |-> bindRes, calls |-> calls,
                                                 returned |-> Len(r.principals), err |-> r.err])
                  /\ IF r.panic
                     THEN /\ pc' = "panic"
                          /\ conns' = Close(Close(bound, gConn), lConn)
                          /\ log' = log \o calls \o <<CloseEv(gConn), CloseEv(lConn)>>
                          /\ UNCHANGED <<ret, groupPrincipals, i>>
                     ELSE IF r.err /= Nil
                     THEN /\ ret' = LoginError(r.err)
                          /\ pc' = "done"
                          /\ conns' = Close(Close(bound, gConn), lConn)
                          /\ log' = log \o calls \o <<CloseEv(gConn), CloseEv(lConn)>>
                          /\ UNCHANGED <<groupPrincipals, i>>
                     ELSE /\ groupPrincipals' = groupPrincipals \o r.principals
                          /\ i' = i + BatchSize
                          /\ IF i + BatchSize < Len(memberOf)
                             THEN /\ conns' = bound
                                  /\ log' = log \o calls
                                  /\ pc' = "getGroupPrincipals"
                             ELSE /\ conns' = Close(bound, gConn)
                                  /\ log' = log \o calls \o <<CloseEv(gConn)>>
                                  /\ pc' = "checkAccess"
                          /\ UNCHANGED ret
    /\ UNCHANGED <<op, cred, config, entry, memberOf, userPrincipal, lConn, gConn, scope, lookupVars>>

(***************************************************************************)
(* The authorization check                                                 *)
(***************************************************************************)
AccessAnswers == {"allowed", "denied", "error"}

CollaboratorError == [class |-> "collaborator", msg |-> "CheckAccess"]

\* a loginUser that reads only CheckAccess's error
AccessResult_IgnoresDenied(answer, user, groups) ==
    IF answer = "error" THEN LoginError(CollaboratorError) ELSE LoginSuccess(user, groups)

\* lines 76-84: what loginUser returns after CheckAccess answered
AccessResult(answer, user, groups) ==
    IF answer = "error" THEN LoginError(CollaboratorError)
    ELSE IF answer /= "allowed" THEN LoginError(APIError("Unauthorized", "unauthorized"))
    ELSE LoginSuccess(user, groups)

checkAccess ==
    /\ op = "login"
    /\ pc = "checkAccess"
    /\ \E answer \in AccessAnswers :
         /\ log' = log \o <<Ev("checkAccess", 0, "", answer), CloseEv(lConn)>>
         /\ ret' = AccessResult(answer, userPrincipal, groupPrincipals)
    /\ conns' = Close(conns, lConn)
    /\ pc' = "done"
    /\ UNCHANGED <<op, cred, config, batches, entry, memberOf, userPrincipal, groupPrincipals, i,
                   lConn, gConn, scope, lookupVars>>

(***************************************************************************)
(* getPrincipal                                                            *)
(***************************************************************************)
scopes == {UserScope, GroupScope}

LookupReturn(principal, isNil, err) ==
    Return(EmptyPrincipal, <<>>, "nil", principal, isNil, <<>>, err)

lookupUnchanged == <<op, config, scope, loginVars, lookupVars>>

\* lines 231-268: the scope check, ParseDN, the local pre-check and NewLDAPConn
getPrincipal ==
    /\ op = "getPrincipal"
    /\ pc = "getPrincipal"
    /\ LET object == ParseDN(distinguishedName)
       IN IF scope \notin scopes
          THEN /\ ret' = LookupReturn(EmptyPrincipal, TRUE, Errorf("Invalid scope"))
               /\ pc' = "done"
               /\ UNCHANGED <<conns, lConn, log>>
          ELSE IF object.err /= Nil
          THEN /\ ret' = LookupReturn(EmptyPrincipal, TRUE, object.err)
               /\ pc' = "done"
               /\ UNCHANGED <<conns, lConn, log>>
          ELSE IF ~IsType(object.attribs, scope) /\ ~HasPermission(object.attribs)
          THEN /\ ret' = LookupReturn(EmptyPrincipal, TRUE, Nil)
               /\ pc' = "done"
               /\ UNCHANGED <<conns, lConn, log>>
          ELSE \E ok \in BOOLEAN :
                 IF ok
                 THEN /\ conns' = Append(conns, NewConn)
                      /\ lConn' = Len(conns) + 1
                      /\ log' = Append(log, Ev("open", Len(conns) + 1, "", "ok"))
                      /\ pc' = "getPrincipalBind"
                      /\ UNCHANGED ret
                 ELSE /\ ret' = LookupReturn(EmptyPrincipal, TRUE, LdapError("connect"))
                      /\ pc' = "done"
                      /\ log' = Append(log, Ev("open", 0, "", "connect"))
                      /\ UNCHANGED <<conns, lConn>>
    /\ UNCHANGED lookupUnchanged

\* lines 276-287
DegradedPrincipal(sc, dn) ==
    [Name |-> sc \o "://" \o dn,
     DisplayName |-> dn,
     LoginName |-> dn,
     PrincipalType |-> IF EqualFold(UserScope, sc) THEN "user"
                       ELSE IF EqualFold(GroupScope, sc) THEN "group" ELSE "",
     Me |-> FALSE, MemberOf |-> FALSE,
     Provider |-> ""]

\* lines 269-292: the service-account bind
getPrincipalBind ==
    /\ op = "getPrincipal"
    /\ pc = "getPrincipalBind"
    /\ \E res \in BindResults :
         IF res = "ok"
         THEN /\ conns' = Bound(conns, lConn, "sa", res)
              /\ log' = Append(log, BindEv(lConn, "sa", res, serviceAccountUsername))
              /\ pc' = "getPrincipalSearch"
              /\ UNCHANGED ret
         ELSE /\ conns' = Close(Bound(conns, lConn, "sa", res), lConn)
              /\ log' = log \o <<BindEv(lConn, "sa", res, serviceAccountUsername), CloseEv(lConn)>>
              /\ ret' = IF FallbackGate(res, config.Enabled)
                        THEN LookupReturn(DegradedPrincipal(scope, distinguishedName), FALSE, Nil)
                        ELSE LookupReturn(EmptyPrincipal, TRUE, Errorf("Error in ldap bind"))
              /\ pc' = "done"
    /\ UNCHANGED lConn
    /\ UNCHANGED lookupUnchanged

\* lines 306-333: what getPrincipal returns for a search answer
LookupResult(result, dn, sc) ==
    IF result.err /= Nil
    THEN [panic |-> FALSE,
          ret |-> LookupReturn(EmptyPrincipal, TRUE,
                               IF result.err.class = "ldap" /\ result.err.msg = "noSuchObject"
                               THEN APIError("NotFound", "not found")
                               ELSE APIError("ServerError", "Internal server error"))]
    ELSE IF Len(result.Entries) < 1
    THEN [panic |-> FALSE,
          ret |-> LookupReturn(EmptyPrincipal, TRUE, Errorf("No identities can be retrieved"))]
    ELSE IF Len(result.Entries) > 1
    THEN [panic |-> FALSE,
          ret |-> LookupReturn(EmptyPrincipal, TRUE, Errorf("More than one result found"))]
    ELSE IF ~HasPermission(result.Entries[1].Attributes)
    THEN [panic |-> FALSE,
          ret |-> LookupReturn(EmptyPrincipal, TRUE, Errorf("Permission denied"))]
    ELSE LET m == attributesToPrincipal(result.Entries[1].Attributes, dn, sc)
         IN IF m.status = "panic"
            THEN [panic |-> TRUE, ret |-> NoReturn]
            ELSE IF m.status = "nil"
            THEN [panic |-> FALSE,
                  ret |-> LookupReturn(EmptyPrincipal, TRUE, Errorf("Principal not returned for LDAP"))]
            ELSE [panic |-> FALSE, ret |-> LookupReturn(m.principal, FALSE, Nil)]

\* lines 294-333: the base-object search and the mapping of its single entry
getPrincipalSearch ==
    /\ op = "getPrincipal"
    /\ pc = "getPrincipalSearch"
    /\ \E result \in LookupSearchResults(distinguishedName) :
         LET r == LookupResult(result, distinguishedName, scope)
         IN /\ log' = log \o <<SearchEv("search", lConn, "lookup", result, <<>>),
                               CloseEv(lConn)>>
            /\ entry' = IF result.err = Nil /\ Len(result.Entries) = 1
                        THEN result.Entries[1] ELSE entry
            /\ IF r.panic
               THEN pc' = "panic" /\ UNCHANGED ret
               ELSE pc' = "done" /\ ret' = r.ret
    /\ conns' = Close(conns, lConn)
    /\ UNCHANGED lConn
    /\ UNCHANGED <<op, config, scope, cred, batches, memberOf, userPrincipal, groupPrincipals, i,
                   gConn, lookupVars>>

(***************************************************************************)
(* searchPrincipals, searchUser, searchGroup and searchLdap                *)
(***************************************************************************)
SearchReturn(list, err) == Return(EmptyPrincipal, <<>>, "nil", EmptyPrincipal, TRUE, list, err)

searchUnchanged == <<op, config, loginVars, distinguishedName, principalType>>

\* line 393
RunsUserSearch(type) == type = "" \/ type = "user"

\* a searchPrincipals that searches the groups whatever the kind asked for
RunsGroupSearch_Always(type) == TRUE

\* line 401
RunsGroupSearch(type) == type = "" \/ type = "group"

\* lines 389-394 and 402: which search runs first
searchPrincipals ==
    /\ op = "searchPrincipals"
    /\ pc = "searchPrincipals"
    /\ IF RunsUserSearch(principalType)
       THEN scope' = UserScope /\ pc' = "searchLdap" /\ UNCHANGED ret
       ELSE IF RunsGroupSearch(principalType)
       THEN scope' = GroupScope /\ pc' = "searchLdap" /\ UNCHANGED ret
       ELSE scope' = scope /\ pc' = "done" /\ ret' = SearchReturn(principals, Nil)
    /\ UNCHANGED <<conns, lConn, log, principals>>
    /\ UNCHANGED searchUnchanged

\* lines 432-455: the request is built and the connection opened
searchLdap ==
    /\ op = "searchPrincipals"
    /\ pc = "searchLdap"
    /\ \E ok \in BOOLEAN :
         IF ok
         THEN /\ conns' = Append(conns, NewConn)
              /\ lConn' = Len(conns) + 1
              /\ log' = Append(log, Ev("open", Len(conns) + 1, "", "ok"))
              /\ pc' = "searchLdapBind"
              /\ UNCHANGED ret
         ELSE /\ ret' = SearchReturn(<<>>, LdapError("connect"))
              /\ pc' = "done"
              /\ log' = Append(log, Ev("open", 0, "", "connect"))
              /\ UNCHANGED <<conns, lConn>>
    /\ UNCHANGED <<scope, principals>>
    /\ UNCHANGED searchUnchanged

\* lines 456-462: the service-account bind; the Close is deferred only after it succeeded
searchLdapBind ==
    /\ op = "searchPrincipals"
    /\ pc = "searchLdapBind"
    /\ \E res \in BindResults :
         /\ conns' = Bound(conns, lConn, "sa", res)
         /\ log' = Append(log, BindEv(lConn, "sa", res, serviceAccountUsername))
         /\ IF res = "ok"
            THEN pc' = "searchLdapSearch" /\ UNCHANGED ret
            ELSE pc' = "done" /\ ret' = SearchReturn(<<>>, Errorf("Error in ldap bind"))
    /\ UNCHANGED <<lConn, scope, principals>>
    /\ UNCHANGED searchUnchanged

\* lines 465-470: the paged search's errors that make searchLdap return
PagedSearchFails(err) == err.class = "ldap" /\ err.msg /= "noSuchObject"

\* lines 472-479: every entry mapped and dereferenced
MapEntries(entries, sc) ==
    LET mapped == [k \in 1..Len(entries) |->
                      attributesToPrincipal(entries[k].Attributes, entries[k].DN, sc)]
    IN [panic |-> \E k \in 1..Len(mapped) : mapped[k].status /= "ok",
        principals |-> [k \in 1..Len(mapped) |-> mapped[k].principal]]

\* lines 464-481, and searchPrincipals' lines 396-410 on searchLdap's return
searchLdapSearch ==
    /\ op = "searchPrincipals"
    /\ pc = "searchLdapSearch"
    /\ \E result \in PagedSearchResults(scope) :
         LET m == MapEntries(result.Entries, scope)
         IN /\ log' = log \o <<SearchEv("pagedSearch", lConn, scope, result, DNs(result.Entries)),
                               CloseEv(lConn)>>
            /\ IF result.err /= Nil /\ PagedSearchFails(result.err)
               THEN /\ ret' = SearchReturn(<<>>, Errorf("When searching ldap, Failed to search"))
                    /\ pc' = "done"
                    /\ UNCHANGED <<scope, principals>>
               ELSE IF m.panic
               THEN /\ pc' = "panic"
                    /\ UNCHANGED <<ret, scope, principals>>
               ELSE /\ principals' = principals \o m.principals
                    /\ IF scope = UserScope /\ RunsGroupSearch(principalType)
                       THEN scope' = GroupScope /\ pc' = "searchLdap" /\ UNCHANGED ret
                       ELSE /\ scope' = scope
                            /\ pc' = "done"
                            /\ ret' = SearchReturn(principals \o m.principals, Nil)
    /\ conns' = Close(conns, lConn)
    /\ UNCHANGED lConn
    /\ UNCHANGED searchUnchanged

Next ==
    \/ loginUser
    \/ serviceBind
    \/ userBind
    \/ userRecord
    \/ getPrincipalsFromSearchResult
    \/ getGroupPrincipals
    \/ checkAccess
    \/ getPrincipal
    \/ getPrincipalBind
    \/ getPrincipalSearch
    \/ searchPrincipals
    \/ searchLdap
    \/ searchLdapBind
    \/ searchLdapSearch

Spec == Init /\ [][Next]_vars

(***************************************************************************)
(* What the log says.                                                      *)
(***************************************************************************)
Calls(e, w) == {k \in 1..Len(log) : log[k].ev = e /\ log[k].who = w}

UserBinds == Calls("bind", "user")

UserSearches == Calls("search", "user")

AccessChecks == {k \in 1..Len(log) : log[k].ev = "checkAccess"}

LoginDone == op = "login" /\ pc = "done"

AfterUserBind == {"userRecord", "getPrincipalsFromSearchResult", "getGroupPrincipals", "checkAccess"}

RECURSIVE Issued(_)
Issued(bs) == IF bs = <<>> THEN <<>> ELSE Head(bs).groupDN \o Issued(Tail(bs))

RECURSIVE Returned(_, _)
Returned(bs, k) == IF k = 0 THEN 0 ELSE bs[k].returned + Returned(bs, k - 1)

\* the principals the k-th successful getGroupPrincipals call returned
BatchPrincipals(k) ==
    SubSeq(groupPrincipals, Returned(batches, k - 1) + 1, Returned(batches, k))

Ceil(n) == (n + BatchSize - 1) \div BatchSize

\* group resolution was reached and every batch succeeded
GroupsResolved == userPrincipal.Me /\ (pc = "checkAccess" \/ AccessChecks /= {})

BatchFailed(b) ==
    \/ b.bind /= "ok" /\ ~(b.bind = "invalidCredentials" /\ config.Enabled)
    \/ \E c \in 1..Len(b.calls) : b.calls[c].ev = "search" /\ b.calls[c].res /= "ok"

(***************************************************************************)
(* The claims.                                                             *)
(***************************************************************************)

\* C1: when a top-level operation has returned, no connection it opened is
\* still open, whatever exit path it took.
C1_ConnectionsClosedOnReturn ==
    pc = "done" => \A k \in 1..Len(conns) : ~conns[k].open

\* C2: a login with an empty password makes no bind at all and ends with a
\* MissingRequired error, whatever the username and the configuration.
C2_EmptyPasswordNoBind ==
    (op = "login" /\ cred.Password = "") =>
        /\ \A k \in 1..Len(log) : log[k].ev /= "bind"
        /\ pc \in {"loginUser", "done"}
        /\ pc = "done" => ret.err.class = "MissingRequired"

C2_Witness ==
    /\ LoginDone
    /\ cred.Password = ""
    /\ ~config.Enabled
    /\ ret.err.class = "MissingRequired"

\* C3: a login binds with the user's credentials at most once, exactly once
\* when it got past the bind stage, and before any search, group resolution or
\* authorization check; a failed user bind is followed by nothing but the
\* Close, and the login returns Unauthorized for invalid credentials and
\* ServerError for any other bind failure.
C3_UserBindOnceThenTerminal ==
    op = "login" =>
        /\ Cardinality(UserBinds) <= 1
        /\ pc = "userBind" => UserBinds = {}
        /\ pc \in AfterUserBind => Cardinality(UserBinds) = 1
        /\ \A k \in 1..Len(log) :
              (log[k].ev \in {"search", "checkAccess"} \/ (log[k].ev = "open" /\ k > 1)) =>
                  \E j \in UserBinds : j < k /\ log[j].res = "ok"
        /\ \A j \in UserBinds :
              log[j].res /= "ok" =>
                  /\ pc = "done"
                  /\ \A k \in (j + 1)..Len(log) : log[k].ev = "close"
                  /\ batches = <<>>
                  /\ ret.err.class = IF log[j].res = "invalidCredentials"
                                     THEN "Unauthorized" ELSE "ServerError"
                  /\ ret.user = EmptyPrincipal
                  /\ ret.groups = <<>>

C3_Witness ==
    /\ LoginDone
    /\ ~config.Enabled
    /\ \E j \in UserBinds : log[j].res = "invalidCredentials"
    /\ ret.err.class = "Unauthorized"

\* C4: a login whose user bind was rejected with invalid credentials and a
\* login whose user search matched no entry both return an Unauthorized
\* error.
C4_NotFoundLooksLikeWrongPassword ==
    (/\ LoginDone
     /\ \/ \E j \in UserBinds : log[j].res = "invalidCredentials"
        \/ \E k \in UserSearches : log[k].res = "ok" /\ log[k].n = 0) =>
        ret.err.class = "Unauthorized"

\* C5: a login that returns no error returns the principal of the matched
\* entry: not the empty principal, Me set, kind user, id user://<DN of the
\* entry>, and an empty metadata map.
C5_SuccessReturnsMatchedUser ==
    (LoginDone /\ ret.err = Nil) =>
        /\ ret.user /= EmptyPrincipal
        /\ ret.user.Me
        /\ ret.user.PrincipalType = "user"
        /\ ret.user.Name = "user://" \o entry.DN
        /\ ret.meta = "{}"

C7_BatchesOfFifty ==
    op = "login" =>
        /\ \A k \in 1..Len(batches) :
              /\ Len(batches[k].groupDN) >= 1
              /\ Len(batches[k].groupDN) <= 50
              /\ k < Len(batches) => Len(batches[k].groupDN) = 50 /\ batches[k].err = Nil
        /\ Len(Issued(batches)) <= Len(memberOf)
        /\ Issued(batches) = SubSeq(memberOf, 1, Len(Issued(batches)))
        /\ GroupsResolved =>
              /\ Len(batches) = Ceil(Len(memberOf))
              /\ Issued(batches) = memberOf
              /\ Len(memberOf) = 120 => Len(batches) = 3
        /\ (userPrincipal.Me /\ memberOf = <<>>) =>
              /\ batches = <<>>
              /\ gConn = 0
              /\ Len(conns) = 1
              /\ \A k \in UserSearches : \A j \in (k + 1)..Len(log) : log[j].ev /= "bind"

C7_Witness ==
    /\ op = "login"
    /\ pc = "checkAccess"
    /\ Len(memberOf) = 120
    /\ Len(batches) = 3
    /\ Len(batches[3].groupDN) = 20

\* C8: a getGroupPrincipals call whose service-account bind failed with
\* invalid credentials while the configuration is enabled returns no error
\* and one principal per DN of its batch, in the batch's order, with id
\* group://<DN>, kind group, loginName = displayName = the DN and MemberOf
\* set, and makes no search.
C8_DegradedFallback ==
    op = "login" =>
        \A k \in 1..Len(batches) :
            (batches[k].bind = "invalidCredentials" /\ config.Enabled) =>
                /\ batches[k].err = Nil
                /\ batches[k].returned = Len(batches[k].groupDN)
                /\ \A c \in 1..Len(batches[k].calls) : batches[k].calls[c].ev /= "search"
                /\ \A j \in 1..Len(batches[k].groupDN) :
                      LET dn == batches[k].groupDN[j]
                          p == BatchPrincipals(k)[j]
                      IN /\ p.Name = "group://" \o dn
                         /\ p.PrincipalType = "group"
                         /\ p.LoginName = dn
                         /\ p.DisplayName = dn
                         /\ p.MemberOf

C8_Witness ==
    /\ op = "login"
    /\ pc = "checkAccess"
    /\ config.Enabled
    /\ Len(batches) = 1
    /\ batches[1].bind = "invalidCredentials"
    /\ Len(batches[1].groupDN) = 3
    /\ Len(groupPrincipals) = 3

\* C9: a batch that failed (its bind failed outside the degraded fallback, or
\* its search failed) is the last batch; the login is over, CheckAccess was
\* not called, and loginUser returned that batch's error with the empty user
\* principal and no group principals.
C9_NoPartialLogin ==
    op = "login" =>
        \A k \in 1..Len(batches) :
            BatchFailed(batches[k]) =>
                /\ batches[k].err /= Nil
                /\ k = Len(batches)
                /\ pc = "done"
                /\ AccessChecks = {}
                /\ ret.err = batches[k].err
                /\ ret.user = EmptyPrincipal
                /\ ret.groups = <<>>
                /\ ret.meta = "nil"

C9_Witness ==
    /\ LoginDone
    /\ Len(batches) = 3
    /\ BatchFailed(batches[3])
    /\ Len(groupPrincipals) > 0
    /\ ret.err /= Nil

\* C10: CheckAccess is called at most once, after the user search and every
\* batch, none of which failed, and nothing but the Close follows it; a login
\* returns no error only if it was called and answered allowed; a denied
\* answer returns Unauthorized with no principals, and the collaborator's
\* error is returned as it is.
C10_AccessCheckDecides ==
    op = "login" =>
        /\ Cardinality(AccessChecks) <= 1
        /\ \A a \in AccessChecks :
              /\ UserSearches /= {}
              /\ \A k \in 1..Len(log) : log[k].ev \in {"bind", "search", "open"} => k < a
              /\ \A k \in (a + 1)..Len(log) : log[k].ev = "close"
              /\ \A k \in 1..Len(batches) : batches[k].err = Nil
              /\ Issued(batches) = (IF userPrincipal.Me THEN memberOf ELSE <<>>)
              /\ pc = "done"
              /\ log[a].res = "allowed" => ret = LoginSuccess(userPrincipal, groupPrincipals)
              /\ log[a].res = "denied" =>
                    /\ ret.err.class = "Unauthorized"
                    /\ ret.user = EmptyPrincipal
                    /\ ret.groups = <<>>
              /\ log[a].res = "error" => ret.err = CollaboratorError /\ ret.user = EmptyPrincipal
        /\ (pc = "done" /\ ret.err = Nil) => \E a \in AccessChecks : log[a].res = "allowed"

C10_Witness ==
    /\ LoginDone
    /\ \E a \in AccessChecks : log[a].res = "denied"
    /\ Len(batches) = 3
    /\ ret.err.class = "Unauthorized"

\* the service-account binds made on the login connection, before the user bind
PreBinds == {k \in 1..Len(log) : log[k].ev = "bind" /\ log[k].who = "sa" /\ log[k].conn = lConn}

\* C11: a login makes the service-account pre-bind only when the
\* configuration is not enabled, and then exactly once and before the user
\* bind; with the configuration enabled it makes none; when the pre-bind is
\* required and the service-account password is empty the login makes no bind
\* at all and, once the connection was opened, ends with MissingRequired;
\* when the pre-bind fails no user bind follows, nothing but the Close does,
\* and the login returns the bind's error.
C11_PreBindOnlyWhenNotEnabled ==
    op = "login" =>
        /\ config.Enabled => PreBinds = {}
        /\ Cardinality(PreBinds) <= 1
        /\ (~config.Enabled /\ pc \in {"userBind"} \cup AfterUserBind) =>
              \E k \in PreBinds : log[k].res = "ok"
        /\ \A j \in UserBinds :
              ~config.Enabled => \E k \in PreBinds : k < j /\ log[k].res = "ok"
        /\ (~config.Enabled /\ config.ServiceAccountPassword = "") =>
              /\ \A k \in 1..Len(log) : log[k].ev /= "bind"
              /\ pc \in {"loginUser", "serviceBind", "done"}
              /\ (pc = "done" /\ lConn /= 0) => ret.err.class = "MissingRequired"
        /\ \A k \in PreBinds :
              log[k].res /= "ok" =>
                  /\ pc = "done"
                  /\ UserBinds = {}
                  /\ \A j \in (k + 1)..Len(log) : log[j].ev = "close"
                  /\ ret.err.class = IF log[k].res = "invalidCredentials"
                                     THEN "Unauthorized" ELSE "ServerError"

C11_Witness ==
    /\ LoginDone
    /\ ~config.Enabled
    /\ cred.Password /= ""
    /\ \E k \in PreBinds : log[k].res = "other"
    /\ UserBinds = {}
    /\ ret.err.class = "ServerError"

LookupDone == op = "getPrincipal" /\ pc = "done"

\* C12: a getPrincipal call that returned yields exactly one of a principal
\* and an error; a call that returned without opening a connection (stopped by
\* the scope check, by ParseDN or by the local pre-check) returned an error,
\* and made no bind and no search.
C12_PrincipalOrError ==
    LookupDone =>
        /\ ret.isNil <=> ret.err /= Nil
        /\ (\A k \in 1..Len(log) : log[k].ev /= "open") =>
              /\ ret.err /= Nil
              /\ log = <<>>

LookupSearches == Calls("search", "lookup")

\* C13: after the base-object search of getPrincipal answered without an
\* error, zero entries make getPrincipal return a NotFound error, more than
\* one entry make it return the more-than-one-result error, and a call that
\* returned a principal returned one whose id is <scope>://<DN> for the scope
\* and the DN it was called with.
C13_ExactLookup ==
    LookupDone =>
        \A k \in LookupSearches :
            log[k].res = "ok" =>
                /\ log[k].n = 0 => ret.isNil /\ ret.err.class = "NotFound"
                /\ log[k].n > 1 => ret.isNil /\ ret.err = Errorf("More than one result found")
                /\ ~ret.isNil =>
                      /\ log[k].n = 1
                      /\ ret.err = Nil
                      /\ ret.principal.Name = scope \o "://" \o distinguishedName

PagedSearches == {k \in 1..Len(log) : log[k].ev = "pagedSearch"}

\* C14: a paged search of searchLdap that failed with no-such-object is
\* tolerated: it contributes no principal and no error, so a search operation
\* whose paged searches all failed that way returns an empty list and no
\* error; a paged search that failed in any other way ends the operation with
\* an error and is never followed by a success.
C14_PagedSearchErrors ==
    op = "searchPrincipals" =>
        /\ \A k \in PagedSearches :
              log[k].res \notin {"ok", "noSuchObject"} => pc = "done" /\ ret.err /= Nil
        /\ (/\ pc = "done"
            /\ PagedSearches /= {}
            /\ \A k \in PagedSearches : log[k].res = "noSuchObject"
            /\ log[Len(log)].ev = "close") =>
              ret.err = Nil /\ ret.list = <<>>

SearchDone == op = "searchPrincipals" /\ pc = "done"

\* the ids of the principals the paged searches of the log found, in log order
RECURSIVE Found(_)
Found(l) ==
    IF l = <<>> THEN <<>>
    ELSE (IF Head(l).ev = "pagedSearch"
          THEN [k \in 1..Len(Head(l).arg) |-> Head(l).who \o "://" \o Head(l).arg[k]]
          ELSE <<>>) \o Found(Tail(l))

\* searchLdap returned an error for the scope w: the connection could not be
\* opened, the bind failed, or the paged search failed with an ldap error
\* other than no-such-object
SearchFailed(w, c) ==
    \/ \E k \in 1..Len(log) : log[k].ev = "open" /\ log[k].res /= "ok" /\ Len(conns) = c - 1
    \/ \E k \in 1..Len(log) : log[k].ev = "bind" /\ log[k].conn = c /\ log[k].res /= "ok"
    \/ \E k \in Calls("pagedSearch", w) : log[k].res = "other"

\* C15: a searchPrincipals that returned no error returns the principals of
\* the user search in the order found, followed by those of the group search
\* in the order found, duplicates kept; with kind user no group search is
\* made and with kind group no user search; the user search comes before the
\* group search, and when it returned an error searchPrincipals returns that
\* error and no principal and makes no group search.
C15_UsersThenGroups ==
    op = "searchPrincipals" =>
        /\ (pc = "done" /\ ret.err = Nil) =>
              /\ [k \in 1..Len(ret.list) |-> ret.list[k].Name] = Found(log)
              /\ Len(ret.list) = Len(principals)
        /\ principalType = "user" => Calls("pagedSearch", GroupScope) = {}
        /\ principalType = "group" => Calls("pagedSearch", UserScope) = {}
        /\ principalType = "" =>
              \A g \in Calls("pagedSearch", GroupScope) :
                  \E u \in Calls("pagedSearch", UserScope) : u < g
        /\ Cardinality(Calls("pagedSearch", UserScope)) <= 1
        /\ Cardinality(Calls("pagedSearch", GroupScope)) <= 1
        /\ (principalType \in {"", "user"} /\ SearchFailed(UserScope, 1)) =>
              /\ pc = "done"
              /\ ret.err /= Nil
              /\ ret.list = <<>>
              /\ Len(conns) <= 1
              /\ Calls("pagedSearch", GroupScope) = {}

C15_Witness ==
    /\ SearchDone
    /\ principalType = ""
    /\ ret.err = Nil
    /\ Len(ret.list) = 4
    /\ ret.list[1].PrincipalType = "user"
    /\ ret.list[1] = ret.list[2]
    /\ ret.list[3].PrincipalType = "group"
    /\ ret.list[3].Name = "group://cn=bobs2"

\* a principal of the scope sc made for the distinguished name dn
WellFormed(p, sc, dn) ==
    /\ sc \in scopes
    /\ p.Name = sc \o "://" \o dn
    /\ p.PrincipalType = sc

\* C16: every principal an operation returned has the id <scope>://<DN>
\* with scope user or group and the kind of that scope: the user of a login
\* for the entry matched, its groups for DNs of the member-of list, the
\* principal of a lookup for the scope and DN asked for, the principals of a
\* search for the entries found under the scope searched; and no operation
\* crashes on an entry that is of neither class.
C16_WellFormedPrincipals ==
    /\ (LoginDone /\ ret.err = Nil) =>
          /\ WellFormed(ret.user, UserScope, entry.DN)
          /\ \A k \in 1..Len(ret.groups) :
                \E j \in 1..Len(memberOf) : WellFormed(ret.groups[k], GroupScope, memberOf[j])
    /\ (LookupDone /\ ~ret.isNil) => WellFormed(ret.principal, scope, distinguishedName)
    /\ (SearchDone /\ ret.err = Nil) =>
          \A k \in 1..Len(ret.list) :
              /\ ret.list[k].Name = Found(log)[k]
              /\ \E sc \in scopes : \E s \in Calls("pagedSearch", sc) :
                    \E j \in 1..Len(log[s].arg) : WellFormed(ret.list[k], sc, log[s].arg[j])
    /\ op = "searchPrincipals" => pc /= "panic"

\* C17: the user search of a login compares the login attribute with the
\* escaped form of the account name, which for a username that contains a
\* backslash is what follows its first backslash (later backslashes
\* included) and otherwise the username itself; the user bind is made with
\* the externalID of the whole username.
C17_AccountNameAfterFirstSeparator ==
    op = "login" =>
        /\ \A k \in UserSearches :
              IF Contains(cred.Username, Backslash)
              THEN \E n \in 1..Len(cred.Username) :
                      /\ cred.Username[n] = Backslash
                      /\ \A j \in 1..(n - 1) : cred.Username[j] /= Backslash
                      /\ log[k].arg = EscapeFilter(SubSeq(cred.Username, n + 1, Len(cred.Username)))
              ELSE log[k].arg = cred.Username
        /\ \A k \in UserBinds :
              /\ log[k].arg = GetUserExternalID(cred.Username, DefaultLoginDomain)
              /\ Contains(cred.Username, Backslash) => log[k].arg = cred.Username

C17_Witness ==
    /\ op = "login"
    /\ cred.Username = <<"D", Backslash, "a", Backslash, "b">>
    /\ \E k \in UserSearches : log[k].arg = <<"a", Backslash, "5", "c", "b">>
    /\ \E k \in UserBinds : log[k].arg = <<"D", Backslash, "a", Backslash, "b">>

\* getPrincipal returned the principal mapped from the single entry of its search
LookupMapped == LookupDone /\ ~ret.isNil /\ entry /= NoEntry

HasAttribute(e, n) == \E k \in 1..Len(e.Attributes) : e.Attributes[k].Name = n

\* the first value of the attribute n of e is there and is not empty
HasFirstValue(e, n) ==
    /\ Len(GetAttributeValues(e, n)) > 0
    /\ GetAttributeValues(e, n)[1] /= ""

IsGroupEntry(e) ==
    /\ IsType(e.Attributes, GroupObjectClass)
    /\ ~IsType(e.Attributes, UserObjectClass)

\* C18: the principal mapped from a group entry has as loginName the first
\* value of the user-login attribute when the entry has that attribute with
\* a non-empty first value, and its displayName otherwise, in whatever order
\* the entry lists its attributes.
C18_GroupLoginName ==
    (LookupMapped /\ IsGroupEntry(entry)) =>
        ret.principal.LoginName =
            IF HasFirstValue(entry, UserLoginAttribute)
            THEN GetAttributeValues(entry, UserLoginAttribute)[1]
            ELSE ret.principal.DisplayName

IsUserEntry(e) == IsType(e.Attributes, UserObjectClass)

\* C19: the principal mapped from a user entry has as displayName the first
\* value of the user-name attribute, and the entry's DN when the entry has
\* that attribute without a value or has not got it; its loginName is the
\* first value of the user-login attribute; and the mapping of a user entry
\* never crashes, an entry whose user-login attribute has no value included.
C19_UserNames ==
    /\ (LookupMapped /\ IsUserEntry(entry)) =>
          /\ ret.principal.DisplayName =
                IF Len(GetAttributeValues(entry, UserNameAttribute)) > 0
                THEN GetAttributeValues(entry, UserNameAttribute)[1]
                ELSE entry.DN
          /\ Len(GetAttributeValues(entry, UserLoginAttribute)) > 0 =>
                ret.principal.LoginName = GetAttributeValues(entry, UserLoginAttribute)[1]
    /\ (op \in {"login", "getPrincipal"} /\ IsUserEntry(entry)) => pc /= "panic"

Searches == {k \in 1..Len(log) : log[k].ev \in {"search", "pagedSearch"}}

\* the binds made before the k-th call on the connection of that call
BindsBefore(k) ==
    {j \in 1..(k - 1) : log[j].ev = "bind" /\ log[j].conn = log[k].conn}

LastBindBefore(k) == CHOOSE j \in BindsBefore(k) : \A h \in BindsBefore(k) : h <= j

\* C20: every search is made on an open connection on which a bind was made
\* before, and the last bind made before it on that connection succeeded:
\* for the user search of a login that bind is the user's, made with the
\* externalID also when a service-account bind preceded it; for a batch
\* search of the group resolution, for the base-object search of a lookup and
\* for a paged search it is the service account's, and for a batch search it
\* is the bind made for that batch, right before the search.
C20_SearchOnlyAfterSuccessfulBind ==
    \A k \in Searches :
        /\ log[k].conn /= 0
        /\ BindsBefore(k) /= {}
        /\ log[LastBindBefore(k)].res = "ok"
        /\ log[LastBindBefore(k)].who = (IF k \in UserSearches THEN "user" ELSE "sa")
        /\ k \in UserSearches => log[LastBindBefore(k)].arg = externalID
        /\ k \notin UserSearches => log[LastBindBefore(k)].arg = serviceAccountUsername
        /\ k \in Calls("search", "group") => LastBindBefore(k) = k - 1
        /\ \A j \in 1..(k - 1) : ~(log[j].ev = "close" /\ log[j].conn = log[k].conn)

C20_Witness ==
    /\ op = "login"
    /\ ~config.Enabled
    /\ PreBinds /= {}
    /\ \E k \in UserSearches : log[LastBindBefore(k)].who = "user" /\ Cardinality(BindsBefore(k)) = 2
    /\ Cardinality(Calls("search", "group")) = 3

====
